---- MODULE Spec2Model ----
(***************************************************************************)
(* Model of bundle/bundle.py: the Version value type, the two version      *)
(* loops of Bundle against the package index (sync_version_from_pypi,      *)
(* bump_if_already_on_pypi) and the staging pipeline of run_setup_command  *)
(* (render_to_temp with temporary_dir, NamedTemporaryFile and changedir).  *)
(*                                                                         *)
(* A string is a sequence of one-character strings, so that parsing        *)
(* (partition, split, int) and formatting (str, join) are computed.        *)
(***************************************************************************)
EXTENDS Integers, Sequences, FiniteSets

VARIABLES
    version,    \* Bundle.version: the stored version string
    index,      \* the versions of Bundle.name that have release urls on the index
    pc,         \* position of the running version operation
    op,         \* which version operation runs: "none", "sync", "bumpif"
    ver,        \* the local Version object of the running loop
    prev,       \* the local string prev of sync_version_from_pypi
    ret,        \* the value the operation returned
    err,        \* the exception that left the operation
    probes,     \* history: the strings asked of the index in this call, in order
    start,      \* history: Bundle.version when the operation was called
    index0,     \* history: the index when the operation was called
    bumpArg,    \* history: the Version the last bump() was called on
    setup_template,   \* Bundle._setup_template: the placeholders it references
    readme_template,  \* Bundle._readme_template: the placeholders it references
    cwd,        \* the process working directory
    dirs,       \* the directories that exist under the temp root
    files,      \* the files that exist in them, as <<dir, name>>
    spc,        \* position of run_setup_command
    dirname,    \* local of temporary_dir / render_to_temp: the directory made
    prevdir,    \* local prev of changedir
    cwd0,       \* history: the working directory when run_setup_command was called
    trace       \* history: the steps run_setup_command has executed, in order

versionVars == <<version, index, pc, op, ver, prev, ret, err, probes, start, index0, bumpArg>>
stageVars == <<setup_template, readme_template, cwd, dirs, files, spc, dirname, prevdir,
               cwd0, trace>>
vars == <<versionVars, stageVars>>

(***************************************************************************)
(* Bounds of the model.                                                    *)
(***************************************************************************)
MaxLen == 3        \* longest version string a Bundle is constructed with
MaxPatch == 1      \* highest patch number of a three-part release on the index
MaxDirs == 2       \* temp directories that may exist at once

(***************************************************************************)
(* Strings.                                                                *)
(***************************************************************************)
Chars == {"0", "1", ".", "-", "d"}
Digits == <<"0", "1", "2", "3", "4", "5", "6", "7", "8", "9">>
IsDigit(c) == \E i \in 1..10 : Digits[i] = c
DigitValue(c) == (CHOOSE i \in 1..10 : Digits[i] = c) - 1

StringsUpTo(n) == UNION {[1..k -> Chars] : k \in 0..n}

\* s.find(c): the first position of c in s, 0 when it has none
Find(s, c) ==
    IF \E i \in 1..Len(s) : s[i] = c
    THEN CHOOSE i \in 1..Len(s) : s[i] = c /\ \A j \in 1..(i - 1) : s[j] # c
    ELSE 0

\* value.partition('-'): <<head, tail>> around the first '-'
Partition(s) ==
    LET i == Find(s, "-")
    IN  IF i = 0 THEN <<s, <<>>>>
        ELSE <<SubSeq(s, 1, i - 1), SubSeq(s, i + 1, Len(s))>>

\* value.split("."): the pieces between the dots, empty pieces included
RECURSIVE Split(_)
Split(s) ==
    LET i == Find(s, ".")
    IN  IF i = 0 THEN <<s>>
        ELSE <<SubSeq(s, 1, i - 1)>> \o Split(SubSeq(s, i + 1, Len(s)))

\* int(piece) succeeds on a non-empty run of digits
IsInt(p) == Len(p) > 0 /\ \A i \in 1..Len(p) : IsDigit(p[i])

RECURSIVE StrToInt(_)
StrToInt(p) ==
    IF Len(p) = 0 THEN 0
    ELSE 10 * StrToInt(SubSeq(p, 1, Len(p) - 1)) + DigitValue(p[Len(p)])

\* str(n) of a non-negative integer
RECURSIVE IntToStr(_)
IntToStr(n) ==
    IF n < 10 THEN <<Digits[n + 1]>>
    ELSE IntToStr(n \div 10) \o <<Digits[(n % 10) + 1]>>

\* ".".join(pieces)
RECURSIVE JoinDots(_)
JoinDots(ps) ==
    IF Len(ps) = 0 THEN <<>>
    ELSE IF Len(ps) = 1 THEN ps[1]
    ELSE ps[1] \o <<".">> \o JoinDots(Tail(ps))

(***************************************************************************)
(* class Version(list)                                                     *)
(***************************************************************************)
NoVersion == [segs |-> <<>>, devel |-> <<>>]

\* Version.__init__ raises ValueError when a piece is not an integer
CanParse(s) ==
    LET pieces == Split(Partition(s)[1])
    IN  \A i \in 1..Len(pieces) : IsInt(pieces[i])

\* Version.__init__
Parse(s) ==
    LET parts == Partition(s)
        pieces == Split(parts[1])
    IN  [segs |-> [i \in 1..Len(pieces) |-> StrToInt(pieces[i])],
         devel |-> parts[2]]

\* Version.is_devel
IsDevel(v) == v.devel # <<>>

\* Version._develpart
DevelPart(v) == IF v.devel # <<>> THEN <<"-">> \o v.devel ELSE <<>>

\* Version.__str__
ToString(v) ==
    JoinDots([i \in 1..Len(v.segs) |-> IntToStr(v.segs[i])]) \o DevelPart(v)

\* Version.bump with the padding left out: the last segment is incremented as it stands
BumpNoPad(v) ==
    IF IsDevel(v) THEN [raised |-> TRUE, v |-> v]
    ELSE [raised |-> FALSE,
          v |-> [v EXCEPT !.segs = [v.segs EXCEPT ![Len(v.segs)] = @ + 1]]]

\* Version.bump without the development check
BumpNoCheck(v) ==
    LET padded == IF Len(v.segs) < 3 THEN Append(v.segs, 0) ELSE v.segs
    IN  [raised |-> FALSE,
         v |-> [v EXCEPT !.segs = [padded EXCEPT ![Len(padded)] = @ + 1]]]

\* Version.bump: raised says that ValueError left it, v is the object afterwards
Bump(v) ==
    IF IsDevel(v) THEN [raised |-> TRUE, v |-> v]
    ELSE LET padded == IF Len(v.segs) < 3 THEN Append(v.segs, 0) ELSE v.segs
         IN  [raised |-> FALSE,
              v |-> [v EXCEPT !.segs = [padded EXCEPT ![Len(padded)] = @ + 1]]]

(***************************************************************************)
(* class Bundle: construction and the package index                        *)
(***************************************************************************)
DefaultVersion == <<"1", ".", "0">>

\* Bundle.__init__: self.version = version or "1.0"
InitVersionOf(v) == IF v = <<>> THEN DefaultVersion ELSE v

\* Bundle._version_exists
VersionExists(v, idx) == ToString(v) \in idx

\* The releases an index may hold: one-part, two-part and three-part versions
\* on the bump chains of "1" and "1.0", and a development release.
Published ==
    {<<"1">>, <<"1", ".", "0">>, <<"1", ".", "1">>, <<"1", "-", "d">>}
        \cup {<<"1", ".", "0", ".">> \o IntToStr(k) : k \in 1..MaxPatch}
        \cup {<<"1", ".", "1", ".">> \o IntToStr(k) : k \in 1..MaxPatch}

(***************************************************************************)
(* Bundle.sync_version_from_pypi                                           *)
(***************************************************************************)
Idle == pc = "idle" /\ spc = "idle"

\* lines 104-105 with prev taken from the stored string: prev = self.version
SyncCallRawPrev ==
    /\ Idle
    /\ op' = "sync"
    /\ start' = version
    /\ index0' = index
    /\ probes' = <<>>
    /\ ret' = <<>>
    /\ bumpArg' = NoVersion
    /\ IF CanParse(version)
       THEN /\ ver' = Parse(version)
            /\ prev' = version
            /\ pc' = "sync_probe"
            /\ err' = "none"
       ELSE /\ pc' = "raised"
            /\ err' = "ValueError:parse"
            /\ UNCHANGED <<ver, prev>>
    /\ UNCHANGED <<version, index, stageVars>>

\* lines 104-105: version = Version(self.version); prev = str(version)
SyncCall ==
    /\ Idle
    /\ op' = "sync"
    /\ start' = version
    /\ index0' = index
    /\ probes' = <<>>
    /\ ret' = <<>>
    /\ bumpArg' = NoVersion
    /\ IF CanParse(version)
       THEN /\ ver' = Parse(version)
            /\ prev' = ToString(Parse(version))
            /\ pc' = "sync_probe"
            /\ err' = "none"
       ELSE /\ pc' = "raised"
            /\ err' = "ValueError:parse"
            /\ UNCHANGED <<ver, prev>>
    /\ UNCHANGED <<version, index, stageVars>>

\* lines 107-110 storing and returning the first absent version, not prev
SyncProbeFirstAbsent ==
    /\ pc = "sync_probe"
    /\ probes' = Append(probes, ToString(ver))
    /\ \E answered \in BOOLEAN :
        IF ~answered
        THEN /\ pc' = "raised"
             /\ err' = "IOError:index"
             /\ UNCHANGED <<version, prev, ret>>
        ELSE IF ~VersionExists(ver, index)
        THEN /\ version' = ToString(ver)
             /\ ret' = ToString(ver)
             /\ pc' = "done"
             /\ UNCHANGED <<prev, err>>
        ELSE /\ prev' = ToString(ver)
             /\ pc' = "sync_bump"
             /\ UNCHANGED <<version, ret, err>>
    /\ UNCHANGED <<index, op, ver, start, index0, bumpArg, stageVars>>

\* lines 107-110: one query of the index; absent: store and return prev;
\* present: prev = str(version).  The query may fail, and the failure propagates.
SyncProbe ==
    /\ pc = "sync_probe"
    /\ probes' = Append(probes, ToString(ver))
    /\ \E answered \in BOOLEAN :
        IF ~answered
        THEN /\ pc' = "raised"
             /\ err' = "IOError:index"
             /\ UNCHANGED <<version, prev, ret>>
        ELSE IF ~VersionExists(ver, index)
        THEN /\ version' = prev
             /\ ret' = prev
             /\ pc' = "done"
             /\ UNCHANGED <<prev, err>>
        ELSE /\ prev' = ToString(ver)
             /\ pc' = "sync_bump"
             /\ UNCHANGED <<version, ret, err>>
    /\ UNCHANGED <<index, op, ver, start, index0, bumpArg, stageVars>>

\* line 111 with the candidate stored on the bundle at every iteration
SyncBumpStoring ==
    /\ pc = "sync_bump"
    /\ bumpArg' = ver
    /\ version' = prev
    /\ IF Bump(ver).raised
       THEN /\ pc' = "raised"
            /\ err' = "ValueError:bump"
       ELSE /\ pc' = "sync_probe"
            /\ UNCHANGED err
    /\ ver' = Bump(ver).v
    /\ UNCHANGED <<index, op, prev, ret, probes, start, index0, stageVars>>

\* line 111: version.bump()
SyncBump ==
    /\ pc = "sync_bump"
    /\ bumpArg' = ver
    /\ IF Bump(ver).raised
       THEN /\ pc' = "raised"
            /\ err' = "ValueError:bump"
       ELSE /\ pc' = "sync_probe"
            /\ UNCHANGED err
    /\ ver' = Bump(ver).v
    /\ UNCHANGED <<version, index, op, prev, ret, probes, start, index0, stageVars>>

(***************************************************************************)
(* Bundle.bump_if_already_on_pypi                                          *)
(***************************************************************************)
\* line 114: version = Version(self.version)
BumpIfCall ==
    /\ Idle
    /\ op' = "bumpif"
    /\ start' = version
    /\ index0' = index
    /\ probes' = <<>>
    /\ ret' = <<>>
    /\ prev' = <<>>
    /\ bumpArg' = NoVersion
    /\ IF CanParse(version)
       THEN /\ ver' = Parse(version)
            /\ pc' = "bumpif_probe"
            /\ err' = "none"
       ELSE /\ pc' = "raised"
            /\ err' = "ValueError:parse"
            /\ UNCHANGED ver
    /\ UNCHANGED <<version, index, stageVars>>

\* lines 116-121 leaving the loop at the first answer, present or not
BumpIfProbeOnce ==
    /\ pc = "bumpif_probe"
    /\ probes' = Append(probes, ToString(ver))
    /\ \E answered \in BOOLEAN :
        IF ~answered
        THEN /\ pc' = "raised"
             /\ err' = "IOError:index"
             /\ UNCHANGED <<version, ret>>
        ELSE /\ version' = ToString(ver)
             /\ ret' = ToString(ver)
             /\ pc' = "done"
             /\ UNCHANGED err
    /\ UNCHANGED <<index, op, ver, prev, start, index0, bumpArg, stageVars>>

\* lines 116-117 and 120-121: one query of the index; absent: leave the loop,
\* store and return str(version); present: go on to bump
BumpIfProbe ==
    /\ pc = "bumpif_probe"
    /\ probes' = Append(probes, ToString(ver))
    /\ \E answered \in BOOLEAN :
        IF ~answered
        THEN /\ pc' = "raised"
             /\ err' = "IOError:index"
             /\ UNCHANGED <<version, ret>>
        ELSE IF ~VersionExists(ver, index)
        THEN /\ version' = ToString(ver)
             /\ ret' = ToString(ver)
             /\ pc' = "done"
             /\ UNCHANGED err
        ELSE /\ pc' = "bumpif_bump"
             /\ UNCHANGED <<version, ret, err>>
    /\ UNCHANGED <<index, op, ver, prev, start, index0, bumpArg, stageVars>>

\* lines 118-119: version.bump(), then the "Version taken" message
BumpIfBump ==
    /\ pc = "bumpif_bump"
    /\ bumpArg' = ver
    /\ IF Bump(ver).raised
       THEN /\ pc' = "raised"
            /\ err' = "ValueError:bump"
       ELSE /\ pc' = "bumpif_probe"
            /\ UNCHANGED err
    /\ ver' = Bump(ver).v
    /\ UNCHANGED <<version, index, op, prev, ret, probes, start, index0, stageVars>>

\* the operation has returned or raised; its locals are gone and the caller goes on
Return ==
    /\ pc \in {"done", "raised"}
    /\ pc' = "idle"
    /\ op' = "none"
    /\ ver' = NoVersion
    /\ prev' = <<>>
    /\ ret' = <<>>
    /\ err' = "none"
    /\ probes' = <<>>
    /\ start' = <<>>
    /\ index0' = {}
    /\ bumpArg' = NoVersion
    /\ UNCHANGED <<version, index, stageVars>>

(***************************************************************************)
(* Bundle.run_setup_command over render_to_temp                            *)
(***************************************************************************)
HomeDir == <<"home", 0>>
TmpDir(i) == <<"tmp", i>>
NoDir == <<"none", 0>>
SetupFile(d) == <<d, "setup.py">>
ReadmeFile(d) == <<d, "README">>

\* Bundle.stash: the names Template.substitute can resolve
StashKeys ==
    {"name", "description", "requires", "version", "author", "author_email", "url",
     "platforms", "license", "_setup_template", "_readme_template", "_pypi",
     "title", "title_h1", "bundle_version", "requires_i2", "requires_i24"}

\* the placeholders a template may reference
Placeholders == {"title", "version", "nosuch"}

\* Template(t).substitute(**stash) raises KeyError on a placeholder stash lacks
CanSubstitute(t) == t \subseteq StashKeys

Log(step) == trace' = Append(trace, step)

\* temporary_dir, line 137: dirname = mkdtemp()
Mkdtemp ==
    /\ Idle
    /\ Cardinality(dirs) < MaxDirs
    /\ LET i == CHOOSE k \in 1..MaxDirs :
                   /\ TmpDir(k) \notin dirs
                   /\ \A j \in 1..(k - 1) : TmpDir(j) \in dirs
       IN  /\ dirname' = TmpDir(i)
           /\ dirs' = dirs \cup {TmpDir(i)}
    /\ cwd0' = cwd
    /\ trace' = <<"mkdtemp">>
    /\ spc' = "create_setup"
    /\ UNCHANGED <<versionVars, setup_template, readme_template, cwd, files, prevdir>>

\* render_to_temp, line 144: NamedTemporaryFile(dir=dir, suffix=".py")
CreateSetup ==
    /\ spc = "create_setup"
    /\ files' = files \cup {SetupFile(dirname)}
    /\ Log("create_setup")
    /\ spc' = "chdir"
    /\ UNCHANGED <<versionVars, setup_template, readme_template, cwd, dirs, dirname,
                   prevdir, cwd0>>

\* changedir, lines 32-34: prev = os.getcwd(); os.chdir(new); yield
Chdir ==
    /\ spc = "chdir"
    /\ prevdir' = cwd
    /\ cwd' = dirname
    /\ Log("chdir")
    /\ spc' = "render_setup"
    /\ UNCHANGED <<versionVars, setup_template, readme_template, dirs, files, dirname, cwd0>>

\* line 146, the argument: self.render_setup()
RenderSetup ==
    /\ spc = "render_setup"
    /\ Log("render_setup")
    /\ spc' = IF CanSubstitute(setup_template) THEN "write_setup" ELSE "raising"
    /\ UNCHANGED <<versionVars, setup_template, readme_template, cwd, dirs, files,
                   dirname, prevdir, cwd0>>

\* lines 146-147 going on to the subprocess with no README written
WriteSetupOnly ==
    /\ spc = "write_setup"
    /\ Log("write_setup")
    /\ \E written \in BOOLEAN : spc' = IF written THEN "invoke" ELSE "raising"
    /\ UNCHANGED <<versionVars, setup_template, readme_template, cwd, dirs, files,
                   dirname, prevdir, cwd0>>

\* lines 146-147: setup.write(...); setup.flush().  The write may raise: IOError,
\* or TypeError where str is not bytes and the file is opened in binary mode.
WriteSetup ==
    /\ spc = "write_setup"
    /\ Log("write_setup")
    /\ \E written \in BOOLEAN : spc' = IF written THEN "open_readme" ELSE "raising"
    /\ UNCHANGED <<versionVars, setup_template, readme_template, cwd, dirs, files,
                   dirname, prevdir, cwd0>>

\* line 148: open("README", "w"), a path relative to the working directory
OpenReadme ==
    /\ spc = "open_readme"
    /\ files' = files \cup {ReadmeFile(cwd)}
    /\ Log("open_readme")
    /\ spc' = "render_readme"
    /\ UNCHANGED <<versionVars, setup_template, readme_template, cwd, dirs, dirname,
                   prevdir, cwd0>>

\* line 149, the argument: self.render_readme()
RenderReadme ==
    /\ spc = "render_readme"
    /\ Log("render_readme")
    /\ spc' = IF CanSubstitute(readme_template) THEN "write_readme" ELSE "raising"
    /\ UNCHANGED <<versionVars, setup_template, readme_template, cwd, dirs, files,
                   dirname, prevdir, cwd0>>

\* line 149: readme.write(...), and the README is closed; the write may raise IOError
WriteReadme ==
    /\ spc = "write_readme"
    /\ Log("write_readme")
    /\ \E written \in BOOLEAN : spc' = IF written THEN "invoke" ELSE "raising"
    /\ UNCHANGED <<versionVars, setup_template, readme_template, cwd, dirs, files,
                   dirname, prevdir, cwd0>>

\* lines 150 and 154-155: the body of the scope: Popen(...).communicate() and say();
\* starting the subprocess may raise OSError
Invoke ==
    /\ spc = "invoke"
    /\ Log("invoke")
    /\ \E started \in BOOLEAN : spc' = IF started THEN "restore_cwd" ELSE "raising"
    /\ UNCHANGED <<versionVars, setup_template, readme_template, cwd, dirs, files,
                   dirname, prevdir, cwd0>>

\* changedir, line 35, after the yield: os.chdir(prev)
RestoreCwd ==
    /\ spc = "restore_cwd"
    /\ cwd' = prevdir
    /\ Log("restore_cwd")
    /\ spc' = "delete_setup"
    /\ UNCHANGED <<versionVars, setup_template, readme_template, dirs, files, dirname,
                   prevdir, cwd0>>

\* line 144, leaving the with block: NamedTemporaryFile closes and deletes its file
DeleteSetup ==
    /\ spc = "delete_setup"
    /\ files' = files \ {SetupFile(dirname)}
    /\ Log("delete_setup")
    /\ spc' = "rmtree"
    /\ UNCHANGED <<versionVars, setup_template, readme_template, cwd, dirs, dirname,
                   prevdir, cwd0>>

\* temporary_dir, line 139, after the yield: rmtree(dirname)
Rmtree ==
    /\ spc = "rmtree"
    /\ dirs' = dirs \ {dirname}
    /\ files' = {f \in files : f[1] # dirname}
    /\ Log("rmtree")
    /\ spc' = "returned"
    /\ UNCHANGED <<versionVars, setup_template, readme_template, cwd, dirname, prevdir, cwd0>>

\* An exception unwinds the three context managers.  changedir (lines 30-35) and
\* temporary_dir (lines 135-139) have no try/finally around their yield, so the
\* code after it does not run; NamedTemporaryFile deletes its file.
Unwind ==
    /\ spc = "raising"
    /\ files' = files \ {SetupFile(dirname)}
    /\ Log("delete_setup")
    /\ spc' = "raised"
    /\ UNCHANGED <<versionVars, setup_template, readme_template, cwd, dirs, dirname,
                   prevdir, cwd0>>

\* run_setup_command has returned or raised; the caller goes on
StageReturn ==
    /\ spc \in {"returned", "raised"}
    /\ spc' = "idle"
    /\ dirname' = NoDir
    /\ prevdir' = NoDir
    /\ cwd0' = NoDir
    /\ trace' = <<>>
    /\ UNCHANGED <<versionVars, setup_template, readme_template, cwd, dirs, files>>

(***************************************************************************)
(* Specifications                                                          *)
(***************************************************************************)
VersionLocalsInit ==
    /\ pc = "idle"
    /\ op = "none"
    /\ ver = NoVersion
    /\ prev = <<>>
    /\ ret = <<>>
    /\ err = "none"
    /\ probes = <<>>
    /\ start = <<>>
    /\ index0 = {}
    /\ bumpArg = NoVersion

StageLocalsInit ==
    /\ cwd = HomeDir
    /\ dirs = {}
    /\ files = {}
    /\ spc = "idle"
    /\ dirname = NoDir
    /\ prevdir = NoDir
    /\ cwd0 = NoDir
    /\ trace = <<>>

\* a Bundle constructed with any version string, facing any index
InitVersion ==
    /\ \E v \in StringsUpTo(MaxLen) : version = InitVersionOf(v)
    /\ index \in SUBSET Published
    /\ VersionLocalsInit
    /\ setup_template = {}
    /\ readme_template = {}
    /\ StageLocalsInit

\* a Bundle constructed with any two templates
InitStage ==
    /\ version = DefaultVersion
    /\ index = {}
    /\ VersionLocalsInit
    /\ setup_template \in SUBSET Placeholders
    /\ readme_template \in SUBSET Placeholders
    /\ StageLocalsInit

Init ==
    /\ \E v \in StringsUpTo(MaxLen) : version = InitVersionOf(v)
    /\ index \in SUBSET Published
    /\ VersionLocalsInit
    /\ setup_template \in SUBSET Placeholders
    /\ readme_template \in SUBSET Placeholders
    /\ StageLocalsInit

NextVersion ==
    \/ SyncCall
    \/ SyncProbe
    \/ SyncBump
    \/ BumpIfCall
    \/ BumpIfProbe
    \/ BumpIfBump
    \/ Return

NextStage ==
    \/ Mkdtemp
    \/ CreateSetup
    \/ Chdir
    \/ RenderSetup
    \/ WriteSetup
    \/ OpenReadme
    \/ RenderReadme
    \/ WriteReadme
    \/ Invoke
    \/ RestoreCwd
    \/ DeleteSetup
    \/ Rmtree
    \/ Unwind
    \/ StageReturn

Next == NextVersion \/ NextStage

\* the version loops alone, the staging pipeline alone, and the whole program
SpecVersion == InitVersion /\ [][NextVersion]_vars
SpecStage == InitStage /\ [][NextStage]_vars
Spec == Init /\ [][Next]_vars

\* A called operation runs on: the program is sequential and nothing preempts it.
Running == pc \in {"sync_probe", "sync_bump", "bumpif_probe", "bumpif_bump"}
LoopStep == SyncProbe \/ SyncBump \/ BumpIfProbe \/ BumpIfBump
FairSpecVersion == SpecVersion /\ WF_vars(LoopStep)

(***************************************************************************)
(* Vocabulary of the properties                                            *)
(***************************************************************************)
V1_0 == <<"1", ".", "0">>
V1_1 == <<"1", ".", "1">>
V1_2 == <<"1", ".", "2">>
V1_0_1 == <<"1", ".", "0", ".", "1">>

Ended == pc \in {"done", "raised"}
IndexFailed == err = "IOError:index"

\* a version string written the way str(Version(...)) writes it: no piece has a
\* leading zero and no '-' ends the string with an empty suffix
Canonical(s) ==
    /\ CanParse(s)
    /\ LET pieces == Split(Partition(s)[1])
       IN  \A i \in 1..Len(pieces) : Len(pieces[i]) = 1 \/ pieces[i][1] # "0"
    /\ Find(s, "-") # Len(s)

\* each probe after the first asks for the bump of the one before it
IsBumpChain(ps) ==
    \A i \in 1..(Len(ps) - 1) : ps[i + 1] = ToString(Bump(Parse(ps[i])).v)

\* how many versions at the head of the bump chain of v have releases in idx
RECURSIVE PresentRun(_, _)
PresentRun(v, idx) ==
    IF ToString(v) \in idx THEN 1 + PresentRun(Bump(v).v, idx) ELSE 0

\* the order in which run_setup_command executes its steps
FullOrder ==
    <<"mkdtemp", "create_setup", "chdir", "render_setup", "write_setup", "open_readme",
      "render_readme", "write_readme", "invoke", "restore_cwd", "delete_setup", "rmtree">>
Rank(step) == CHOOSE i \in 1..Len(FullOrder) : FullOrder[i] = step
Before(a, b) ==
    \A j \in 1..Len(trace) : trace[j] = b => \E i \in 1..(j - 1) : trace[i] = a

\* the phases render, write, chdir, invoke, cleanup; 0 for a step that is none of them
Phase(step) ==
    CASE step \in {"render_setup", "render_readme"} -> 1
      [] step \in {"write_setup", "write_readme"} -> 2
      [] step = "chdir" -> 3
      [] step = "invoke" -> 4
      [] step \in {"restore_cwd", "rmtree"} -> 5
      [] OTHER -> 0

(***************************************************************************)
(* Properties                                                              *)
(***************************************************************************)

\* C1: whenever the scope of render_to_temp has been left, by return or by an
\* exception, its temporary directory is gone and the working directory is the
\* one from before the scope.
C1_CleanupOnEveryExit ==
    spc \in {"returned", "raised"} => dirname \notin dirs /\ cwd = cwd0

\* C2 as stated: sync_version_from_pypi called on a version that is present in
\* the index (no query failing) returns and stores the last version probed and
\* found present, the one before the first absent probe.
C2_SyncPresentAlwaysReturns ==
    (op = "sync" /\ Ended /\ ~IndexFailed /\ Len(probes) >= 1 /\ probes[1] \in index)
        => /\ pc = "done"
           /\ Len(probes) >= 2
           /\ ret = probes[Len(probes) - 1]
           /\ version = ret

\* C2 amended: the same for a starting version without development suffix,
\* with every probe but the last present, the last absent, the probes a bump
\* chain, and the result never the absent version; a development version
\* that is present makes the first bump raise, nothing returned or stored.
C2_SyncReturnsLastPresent ==
    (op = "sync" /\ Ended /\ ~IndexFailed /\ Len(probes) >= 1 /\ probes[1] \in index)
        => IF IsDevel(Parse(start))
           THEN pc = "raised" /\ err = "ValueError:bump" /\ Len(probes) = 1
                /\ version = start
           ELSE LET n == Len(probes)
                IN  /\ pc = "done"
                    /\ n >= 2
                    /\ \A i \in 1..(n - 1) : probes[i] \in index
                    /\ probes[n] \notin index
                    /\ IsBumpChain(probes)
                    /\ ret = probes[n - 1]
                    /\ ret # probes[n]
                    /\ version = ret

C2_Witness ==
    op = "sync" /\ pc = "done" /\ Len(probes) >= 3 /\ ret = probes[Len(probes) - 1]

C4_BumpIfReturnsFirstAbsent ==
    (op = "bumpif" /\ Ended /\ ~IndexFailed /\ CanParse(start))
        => (~IsDevel(Parse(start))
            => LET n == Len(probes)
               IN  /\ pc = "done"
                   /\ n >= 1
                   /\ probes[1] = ToString(Parse(start))
                   /\ IsBumpChain(probes)
                   /\ \A i \in 1..(n - 1) : probes[i] \in index
                   /\ probes[n] \notin index
                   /\ ret = probes[n]
                   /\ ret \notin index
                   /\ version = ret)

C4_Witness ==
    op = "bumpif" /\ pc = "done" /\ Len(probes) >= 2 /\ start \in index /\ ret \notin index

\* C5: a bump of a version without development suffix leaves at least three
\* segments: the old ones padded with zeros to three, the last one incremented.
C5_BumpPadsToThree ==
    (bumpArg # NoVersion /\ ~IsDevel(bumpArg))
        => LET n == Len(bumpArg.segs)
               m == IF n < 3 THEN 3 ELSE n
               padded == [i \in 1..m |-> IF i <= n THEN bumpArg.segs[i] ELSE 0]
           IN  /\ Len(ver.segs) >= 3
               /\ Len(ver.segs) = m
               /\ \A i \in 1..(m - 1) : ver.segs[i] = padded[i]
               /\ ver.segs[m] = padded[m] + 1
               /\ ver.devel = bumpArg.devel

\* C6: a bump of a version with a development suffix raises ValueError and
\* leaves the segments and the suffix of the version as they were.
C6_DevelBumpRaises ==
    (bumpArg # NoVersion /\ IsDevel(bumpArg))
        => pc = "raised" /\ err = "ValueError:bump" /\ ver = bumpArg

C6_Witness ==
    pc = "raised" /\ err = "ValueError:bump" /\ IsDevel(bumpArg) /\ ver = bumpArg

\* C7 as stated: with "1.0" and "1.1" on the index and "1.2" not, sync from "1.0"
\* returns and stores "1.1".
C7_SyncFromOneZeroGivesOneOne ==
    (op = "sync" /\ pc = "done" /\ start = V1_0
         /\ V1_0 \in index /\ V1_1 \in index /\ V1_2 \notin index)
        => ret = V1_1 /\ version = V1_1

\* C7 amended: with "1.0" and "1.1" on the index and neither "1.2" nor "1.0.1",
\* sync from "1.0" returns and stores "1.0": the bump of "1.0" is "1.0.1".
C7_SyncFromOneZeroGivesOneZero ==
    (op = "sync" /\ Ended /\ ~IndexFailed /\ start = V1_0
         /\ V1_0 \in index /\ V1_1 \in index /\ V1_2 \notin index /\ V1_0_1 \notin index)
        => pc = "done" /\ ret = V1_0 /\ version = V1_0 /\ probes = <<V1_0, V1_0_1>>

C7_Witness ==
    op = "sync" /\ pc = "done" /\ start = V1_0 /\ index = {V1_0, V1_1} /\ ret = V1_0

\* C8 as stated: the steps of run_setup_command come in the order render, write,
\* change directory, invoke, clean up.
C8_RenderWriteChdirInvokeCleanup ==
    \A i, j \in 1..Len(trace) :
        (i < j /\ Phase(trace[i]) # 0 /\ Phase(trace[j]) # 0)
            => Phase(trace[i]) <= Phase(trace[j])

\* C8 amended: the steps come in one fixed order, which is: make the temp
\* directory and the setup file, change directory, render and write the setup
\* script, render and write the README, invoke, restore the working directory,
\* delete the setup file, remove the directory.  A run that returns has executed
\* all of them; the change of directory precedes every render and write, and the
\* subprocess is invoked only after both files are written.
C8_FixedOrder ==
    /\ \A i \in 1..Len(trace) : \E k \in 1..Len(FullOrder) : FullOrder[k] = trace[i]
    /\ \A i, j \in 1..Len(trace) : i < j => Rank(trace[i]) < Rank(trace[j])
    /\ spc = "returned" => trace = FullOrder
    /\ Before("chdir", "render_setup")
    /\ Before("chdir", "write_setup")
    /\ Before("write_setup", "invoke")
    /\ Before("write_readme", "invoke")
    /\ Before("invoke", "restore_cwd")
    /\ Before("invoke", "rmtree")

C8_Witness ==
    spc = "returned" /\ trace = FullOrder /\ cwd = cwd0 /\ dirname \notin dirs

\* C9: the two loops assign the stored version only when they return: while
\* one runs, and after it raised (failed query, development bump, parse error),
\* the stored version is the one from before the call; after it returned, the
\* stored version is what it returned.
C9_VersionAssignedOnlyOnReturn ==
    /\ (Running \/ pc = "raised") => version = start
    /\ pc = "done" => version = ret

C9_Witness ==
    pc = "raised" /\ IndexFailed /\ Len(probes) >= 3 /\ version = start

\* C10: a call on a version without development suffix ends, and when it
\* returns it has made exactly k+1 queries, k being the number of consecutive
\* versions at the head of the bump chain that are present in the index; a
\* call cut short by a failing query has made at most k+1.
C10_EndsAfterKPlusOneQueries ==
    /\ [](((op \in {"sync", "bumpif"}) /\ Ended /\ CanParse(start))
            => (~IsDevel(Parse(start))
                => LET k == PresentRun(Parse(start), index)
                   IN  /\ pc = "done" => Len(probes) = k + 1
                       /\ pc = "raised" => IndexFailed /\ Len(probes) <= k + 1))
    /\ (Running ~> Ended)

C10_Witness ==
    op = "bumpif" /\ pc = "done" /\ Len(probes) = 3
        /\ PresentRun(Parse(start), index) = 2

====
